---- MODULE Spec2Model ----
(***************************************************************************)
(* Model of the Slack translation bot of src/index.js (the current         *)
(* revision, lines 1-565): the message handler with its section parser,    *)
(* placeholder protector, language detector, per-line translation fan-out  *)
(* and card renderer, and the four status handlers of the card.            *)
(*                                                                         *)
(* Spec runs the message handler on texts of up to MaxLines lines drawn    *)
(* from LinePool; SpecChars runs it on texts of up to MaxLen pieces drawn  *)
(* from CharPool, which exercise the placeholder protector and the         *)
(* language detector character by character; SpecStatus runs the status    *)
(* handlers, up to MaxClicks events, on a card that was posted and         *)
(* mirrored; SpecEnvelope runs the message handler on a few texts with     *)
(* every author, attachment list and thread position, and                  *)
(* SpecEnvelopeFair is the same under the scheduling of the runtime;       *)
(* SpecShared runs the message handler and the status handlers side by     *)
(* side.                                                                   *)
(*                                                                         *)
(* Text.  A JavaScript string is modelled as a sequence of characters, one *)
(* element per UTF-16 code unit.  The module is ASCII, so every non-ASCII  *)
(* character of the source is written as an ASCII name of that single      *)
(* character:                                                              *)
(*     "{tim}" "{myeong}" ...   one Hangul syllable each (U+AC00-U+D7A3),  *)
(*                              named by its romanisation                  *)
(*     "{g}" "{a}"              the compatibility jamo U+3131 and U+314F   *)
(*     "[[" "]]"                the brackets U+3010 and U+3011 of a header *)
(*                              marker                                     *)
(*     "((" "))"                the white parentheses U+FF5F and U+FF60    *)
(*                              that delimit a literal span                *)
(*     "{bullet}"               the bullet U+2022                          *)
(* ASCII characters stand for themselves ("a", "1", "|", " ", "\n", "_").  *)
(* A fixed literal that the program only concatenates into its output (a   *)
(* dictionary value, the notice of translateText, a title of the card) is  *)
(* written as one element.                                                 *)
(***************************************************************************)
EXTENDS Integers, Sequences, FiniteSets, TLC

\* ------------------------------------------------------------------------
\* Bounds of the model
\* ------------------------------------------------------------------------
MaxLines == 3        \* lines of an inbound message text
MaxLen == 4          \* pieces of a text of the character-level runs
MaxClicks == 2       \* status events delivered in one run of the status handlers

\* ------------------------------------------------------------------------
\* String primitives of JavaScript used by the source
\* ------------------------------------------------------------------------
NL == "\n"

\* String.prototype.trim strips white space, line terminators included.
IsSpace(c) == c \in {" ", NL}

RECURSIVE TrimLeft(_)
TrimLeft(s) ==
    IF s = <<>> THEN <<>>
    ELSE IF IsSpace(Head(s)) THEN TrimLeft(Tail(s)) ELSE s

RECURSIVE TrimRight(_)
TrimRight(s) ==
    IF s = <<>> THEN <<>>
    ELSE IF IsSpace(s[Len(s)]) THEN TrimRight(SubSeq(s, 1, Len(s) - 1)) ELSE s

Trim(s) == TrimRight(TrimLeft(s))

\* s.startsWith(p), and the test of the anchored regex /^p/ for a literal p
StartsWith(s, p) == Len(s) >= Len(p) /\ SubSeq(s, 1, Len(p)) = p

\* s.replace(/^p/, '') when s starts with p
DropPrefix(s, p) == SubSeq(s, Len(p) + 1, Len(s))

\* s.includes(p)
RECURSIVE Includes(_, _)
Includes(s, p) ==
    IF Len(s) < Len(p) THEN FALSE
    ELSE IF StartsWith(s, p) THEN TRUE
    ELSE Includes(Tail(s), p)

\* s.replace(new RegExp(p, 'g'), r) for a pattern p without regex
\* metacharacters and a replacement r without '$': every non-overlapping
\* occurrence, leftmost first (ReplaceAll_First: the same call without the
\* g flag, which replaces the leftmost occurrence only).
RECURSIVE ReplaceAll(_, _, _)
ReplaceAll_First(s, p, r) ==
    IF p = <<>> \/ ~Includes(s, p) THEN s
    ELSE LET i == CHOOSE i \in 1..Len(s) :
                    /\ StartsWith(SubSeq(s, i, Len(s)), p)
                    /\ \A j \in 1..(i - 1) : ~StartsWith(SubSeq(s, j, Len(s)), p)
         IN  SubSeq(s, 1, i - 1) \o r \o SubSeq(s, i + Len(p), Len(s))
ReplaceAll(s, p, r) ==
    IF p = <<>> \/ Len(s) < Len(p) THEN s
    ELSE IF StartsWith(s, p) THEN r \o ReplaceAll(DropPrefix(s, p), p, r)
    ELSE <<Head(s)>> \o ReplaceAll(Tail(s), p, r)

\* s.split('\n'): always at least one element ("" splits into [""]).
RECURSIVE SplitFrom(_, _, _)
SplitFrom(s, sep, cur) ==
    IF s = <<>> THEN <<cur>>
    ELSE IF Head(s) = sep THEN <<cur>> \o SplitFrom(Tail(s), sep, <<>>)
    ELSE SplitFrom(Tail(s), sep, Append(cur, Head(s)))

Split(s, sep) == SplitFrom(s, sep, <<>>)

\* lines.join('\n')
RECURSIVE Join(_, _)
Join(lines, sep) ==
    IF lines = <<>> THEN <<>>
    ELSE IF Len(lines) = 1 THEN lines[1]
    ELSE lines[1] \o <<sep>> \o Join(Tail(lines), sep)

\* array.filter(pred) for the predicate "line.trim() !== ''"
RECURSIVE FilterNonBlank(_)
FilterNonBlank(lines) ==
    IF lines = <<>> THEN <<>>
    ELSE IF Trim(Head(lines)) /= <<>>
         THEN <<Head(lines)>> \o FilterNonBlank(Tail(lines))
         ELSE FilterNonBlank(Tail(lines))

\* ------------------------------------------------------------------------
\* Literals of the source
\* ------------------------------------------------------------------------
TeamLabel == <<"{tim}", "{myeong}", ":">>
MainLabel == <<"{di}", "{ja}", "{in}", " ", "{yo}", "{cheong}", "{sa}", "{hang}", ":">>
DetailLabel == <<"{i}", "{mi}", "{ji}", " ", "{yo}", "{cheong}", "{sa}", "{hang}", ":">>
NewMarker == <<"[[", "{sin}", "{gyu}", "]]">>
EditMarker == <<"[[", "{su}", "{jeong}", "]]">>
Keyword == <<"{yu}", "{jin}", "{sik}">>

\* The characters of the model's inputs that lie in U+AC00-U+D7A3.
HangulSyllables ==
    {"{tim}", "{myeong}", "{di}", "{ja}", "{in}", "{yo}", "{cheong}", "{sa}",
     "{hang}", "{i}", "{mi}", "{ji}", "{sin}", "{gyu}", "{su}", "{jeong}",
     "{yu}", "{jin}", "{sik}", "{ro}", "{go}", "{dip}", "{yeon}", "{chya}",
     "{kol}", "{geom}"}
\* The characters of the model's inputs in the compatibility jamo ranges
\* U+3131-U+314E and U+314F-U+3163.
JamoConsonants == {"{g}"}
JamoVowels == {"{a}"}

\* ------------------------------------------------------------------------
\* Language Direction Detector
\* ------------------------------------------------------------------------
\* The character class of the regex of isKorean: the three ranges
\* U+3131-U+314E, U+314F-U+3163 and U+AC00-U+D7A3, and the '|' written
\* between them, which inside a character class is a literal character.
KoreanRanges == JamoConsonants \cup JamoVowels \cup HangulSyllables
KoreanClass == JamoConsonants \cup {"|"} \cup JamoVowels \cup HangulSyllables

isKorean(text) == \E k \in 1..Len(text) : text[k] \in KoreanClass

\* ------------------------------------------------------------------------
\* Header Classifier
\* ------------------------------------------------------------------------
parseHeader(text) ==
    LET firstLine == Trim(Split(text, NL)[1])
    IN  IF firstLine = NewMarker THEN <<"[[NEW]]">>
        ELSE IF firstLine = EditMarker THEN <<"[[EDIT]]">>
        ELSE <<>>

\* ------------------------------------------------------------------------
\* Section Parser
\* ------------------------------------------------------------------------
\* The locals of parseSections before its loop (ParserInit_Main: a parser
\* whose cursor starts on the main field).
ParserInit_Main == [team |-> <<>>, main |-> <<>>, detail |-> <<>>, current |-> "main"]
ParserInit == [team |-> <<>>, main |-> <<>>, detail |-> <<>>, current |-> "null"]

\* field += (field ? '\n' : '') + trimmed
AppendLine(field, trimmed) ==
    (IF field /= <<>> THEN field \o <<NL>> ELSE field) \o trimmed

\* The seed of a field at its label line: the trimmed text after the label
\* (SeedInline_Dropped: a parser that loses it).
SeedInline_Dropped(trimmed, label) == <<>>
SeedInline(trimmed, label) == Trim(DropPrefix(trimmed, label))

\* One iteration of the loop of parseSections (ParseLine_Accumulating: the
\* label branches of the earliest parser, which add the inline text to
\* what the field holds, += in place of =).
ParseLine_Accumulating(st, line) ==
    LET trimmed == Trim(line)
    IN  IF trimmed = NewMarker \/ trimmed = EditMarker THEN st
        ELSE IF StartsWith(trimmed, TeamLabel)
             THEN [st EXCEPT !.current = "team",
                             !.team = @ \o SeedInline(trimmed, TeamLabel)]
        ELSE IF StartsWith(trimmed, MainLabel)
             THEN [st EXCEPT !.current = "main",
                             !.main = @ \o SeedInline(trimmed, MainLabel)]
        ELSE IF StartsWith(trimmed, DetailLabel)
             THEN [st EXCEPT !.current = "detail",
                             !.detail = @ \o SeedInline(trimmed, DetailLabel)]
        ELSE IF st.current = "main" /\ trimmed /= <<>>
             THEN [st EXCEPT !.main = AppendLine(st.main, trimmed)]
        ELSE IF st.current = "detail" /\ trimmed /= <<>>
             THEN [st EXCEPT !.detail = AppendLine(st.detail, trimmed)]
        ELSE st
ParseLine(st, line) ==
    LET trimmed == Trim(line)
    IN  IF trimmed = NewMarker \/ trimmed = EditMarker THEN st
        ELSE IF StartsWith(trimmed, TeamLabel)
             THEN [st EXCEPT !.current = "team",
                             !.team = SeedInline(trimmed, TeamLabel)]
        ELSE IF StartsWith(trimmed, MainLabel)
             THEN [st EXCEPT !.current = "main",
                             !.main = SeedInline(trimmed, MainLabel)]
        ELSE IF StartsWith(trimmed, DetailLabel)
             THEN [st EXCEPT !.current = "detail",
                             !.detail = SeedInline(trimmed, DetailLabel)]
        ELSE IF st.current = "main" /\ trimmed /= <<>>
             THEN [st EXCEPT !.main = AppendLine(st.main, trimmed)]
        ELSE IF st.current = "detail" /\ trimmed /= <<>>
             THEN [st EXCEPT !.detail = AppendLine(st.detail, trimmed)]
        ELSE st

\* The loop of parseSections over the first k lines.
RECURSIVE ParseLoop(_, _)
ParseLoop(lines, k) ==
    IF k = 0 THEN ParserInit ELSE ParseLine(ParseLoop(lines, k - 1), lines[k])

parseSections(text) ==
    LET lines == Split(text, NL)
        st == ParseLoop(lines, Len(lines))
    IN  [team |-> Trim(st.team), main |-> Trim(st.main), detail |-> Trim(st.detail)]

\* ------------------------------------------------------------------------
\* Fixed-Term Dictionary and Placeholder Protector
\* ------------------------------------------------------------------------
\* The entries of fixedTranslations whose key can occur in the inputs of
\* the model, in source order (lines 103-106); no other key is made of the
\* characters the inputs are drawn from, so no other entry can match.
fixedTranslations ==
    << << <<"{yeon}", "{chya}", "{kol}">>, <<"Light Charcoal">> >>,
       << <<"{chya}", "{kol}">>, <<"Charcoal">> >>,
       << <<"{geom}", "{jeong}">>, <<"Black">> >>,
       << <<"{dip}", "{chya}", "{kol}">>, <<"Deep Charcoal">> >> >>

\* Array.prototype.sort with (a, b) => b[0].length - a[0].length: stable,
\* longest key first.  InsertByLen puts e after every entry at least as long.
RECURSIVE InsertByLen(_, _)
InsertByLen(sorted, e) ==
    IF sorted = <<>> THEN <<e>>
    ELSE IF Len(Head(sorted)[1]) >= Len(e[1])
         THEN <<Head(sorted)>> \o InsertByLen(Tail(sorted), e)
         ELSE <<e>> \o sorted

RECURSIVE SortByLen(_, _)
SortByLen(entries, k) ==
    IF k = 0 THEN <<>> ELSE InsertByLen(SortByLen(entries, k - 1), entries[k])

\* (sorted_SourceOrder: the entries as the dictionary lists them.)
sorted_SourceOrder == fixedTranslations
sorted == SortByLen(fixedTranslations, Len(fixedTranslations))

\* String(idx): the decimal digits of idx
RECURSIVE Digits(_)
Digits(n) ==
    LET d == <<"0", "1", "2", "3", "4", "5", "6", "7", "8", "9">>[(n % 10) + 1]
    IN  IF n < 10 THEN <<d>> ELSE Digits(n \div 10) \o <<d>>

\* `__FIXED_${idx}__`
Token(idx) == <<"_", "_", "F", "I", "X", "E", "D", "_">> \o Digits(idx) \o <<"_", "_">>

\* The dictionary loop of preprocessFixedWords over the first k sorted
\* entries: [replaced, placeholders, idx].  placeholders is the object's
\* entries in insertion order, as Object.entries yields them.
RECURSIVE DictLoop(_, _)
DictLoop(text, k) ==
    IF k = 0 THEN [replaced |-> text, placeholders |-> <<>>, idx |-> 0]
    ELSE LET st == DictLoop(text, k - 1)
             kor == sorted[k][1]
             eng == sorted[k][2]
         IN  IF Includes(st.replaced, kor)
             THEN [replaced |-> ReplaceAll(st.replaced, kor, Token(st.idx)),
                   placeholders |-> Append(st.placeholders, <<Token(st.idx), eng>>),
                   idx |-> st.idx + 1]
             ELSE st

\* The length of the longest prefix of s without a white parenthesis: what
\* [^(( ))]* consumes.
RECURSIVE PlainRun(_)
PlainRun(s) ==
    IF s = <<>> \/ Head(s) \in {"((", "))"} THEN 0 ELSE 1 + PlainRun(Tail(s))

\* replaced.replace(<the regex of a literal span>, callback) with the g
\* flag: every match "((" [^(( ))]* "))", leftmost first,
\* becomes a fresh token mapped to the match itself.
RECURSIVE BracketLoop(_, _, _)
BracketLoop(s, idx, phs) ==
    IF s = <<>> THEN [replaced |-> <<>>, placeholders |-> phs, idx |-> idx]
    ELSE LET n == PlainRun(Tail(s))
         IN  IF Head(s) = "((" /\ Len(s) >= n + 2 /\ s[n + 2] = "))"
             THEN LET match == SubSeq(s, 1, n + 2)
                      rest == BracketLoop(SubSeq(s, n + 3, Len(s)), idx + 1,
                                          Append(phs, <<Token(idx), match>>))
                  IN  [rest EXCEPT !.replaced = Token(idx) \o @]
             ELSE LET rest == BracketLoop(Tail(s), idx, phs)
                  IN  [rest EXCEPT !.replaced = <<Head(s)>> \o @]

preprocessFixedWords(text) ==
    LET d == DictLoop(text, Len(sorted))
        b == BracketLoop(d.replaced, d.idx, d.placeholders)
    IN  [replaced |-> b.replaced, placeholders |-> b.placeholders]

\* The loop of postprocessFixedWords over the first k entries.
RECURSIVE RestoreLoop(_, _, _)
RestoreLoop(text, placeholders, k) ==
    IF k = 0 THEN text
    ELSE ReplaceAll(RestoreLoop(text, placeholders, k - 1),
                    placeholders[k][1], placeholders[k][2])

postprocessFixedWords(text, placeholders) ==
    RestoreLoop(text, placeholders, Len(placeholders))

\* ------------------------------------------------------------------------
\* Translation backend (external collaborator) and translateText
\* ------------------------------------------------------------------------
Notice ==
    <<"The system seems to be missing the text that needs translation. Could you please provide the text?">>

\* The guard of translateText: !text || text.trim() === ''
\* (ShortCircuits_Never: translateText without the guard).
ShortCircuits_Never(text) == FALSE
ShortCircuits(text) == text = <<>> \/ Trim(text) = <<>>

\* What a well-behaved backend answers: prose is translated character by
\* character into the target language; whatever is not prose of the other
\* language (digits, punctuation, the characters of a token) comes back as
\* it went in.
EnglishOf(c) ==
    CASE c = "{ro}" -> "l"
      [] c = "{go}" -> "g"
      [] c = "{yu}" -> "y"
      [] c = "{jin}" -> "j"
      [] c = "{sik}" -> "s"
      [] c \in KoreanRanges -> "x"
      [] OTHER -> c

KoreanOf(c) ==
    CASE c = "h" -> "{ha}"
      [] c = "i" -> "{ai}"
      [] c = "a" -> "{e}"
      [] c = "b" -> "{bi}"
      [] OTHER -> c

BackendTranslate(text, targetLang) ==
    [k \in 1..Len(text) |->
        IF targetLang = "English" THEN EnglishOf(text[k]) ELSE KoreanOf(text[k])]

\* The answers of the backend to one call: the translation, an empty
\* completion, or a failure (network error, non-2xx, malformed response).
BackendOutcomes == {"ok", "empty", "fail"}

\* ------------------------------------------------------------------------
\* Card Renderer
\* ------------------------------------------------------------------------
\* highlightWord(text, word)
highlightWord(text, word) == ReplaceAll(text, word, <<"*">> \o word \o <<"*">>)

\* list.map(line => line.includes(keyword) ? highlightWord(line, keyword) : line)
Highlighted(list) ==
    [k \in 1..Len(list) |->
        IF Includes(list[k], Keyword) THEN highlightWord(list[k], Keyword) ELSE list[k]]

\* list.map(line => `<bullet> ${line}`).join('\n')
Bullets(list) == Join([k \in 1..Len(list) |-> <<"{bullet}", " ">> \o list[k]], NL)

DesignTitle == <<"*Design Requests*">>
ImageTitle == <<"*Image Requests*">>
NoDesignNote == <<"_No design requests_">>
NoImageNote == <<"_No image requests_">>

\* The text of a request section: the title, a line break, and the bullets
\* or, for an empty list, the note.
SectionText(title, list, note) ==
    title \o <<NL>> \o (IF Len(list) > 0 THEN Bullets(list) ELSE note)

StatusButtons ==
    <<"status_pending", "status_in_progress", "status_completed", "status_needs_revision">>

\* The blocks of the card, in order.  The request date is the clock's.
CardBlocks(header, team, mainList, detailList, files, user) ==
    << [type |-> "header",
        text |-> (IF header /= <<>> THEN header ELSE <<"[[NEW]]">>)
                 \o <<" Design Request Form">>],
       [type |-> "section",
        fields |-> << <<"*Team Name*", NL>> \o team, <<"*Request Date*", NL, "DATE">> >>],
       [type |-> "divider"],
       [type |-> "section", text |-> SectionText(DesignTitle, mainList, NoDesignNote)],
       [type |-> "divider"],
       [type |-> "section", text |-> SectionText(ImageTitle, detailList, NoImageNote)] >>
    \o [k \in 1..Len(files) |-> [type |-> "image", image_url |-> files[k]]]
    \o << [type |-> "actions", elements |-> StatusButtons],
          [type |-> "section", block_id |-> "status_section",
           text |-> <<"*Status:*", NL, "*Pending Review*">>],
          [type |-> "context", elements |-> << <<"*Assignee:* ">> \o <<user>> >>] >>

\* `${header ? header + ' ' : ''}Team Name: ${team} / ${main} / ${detail}`
FallbackText(header, team, main, detail) ==
    (IF header /= <<>> THEN header \o <<" ">> ELSE <<>>)
    \o <<"Team Name: ">> \o team \o <<" / ">> \o main \o <<" / ">> \o detail

\* ------------------------------------------------------------------------
\* Inbound events
\* ------------------------------------------------------------------------
\* The lines the texts of the inbound events are made of.
LinePool ==
    { <<" ">>,
      TeamLabel \o <<" ", "a">>,
      MainLabel \o <<" ", "{chya}", "{kol}">>,
      MainLabel,
      DetailLabel \o <<" ", "1">>,
      Keyword,
      <<"h", "i">>,
      <<" ", "{ro}", "{go}">>,
      NewMarker }

\* The texts: one to MaxLines lines joined by line breaks, and the absent
\* text (undefined and '' alike are falsy).
Texts ==
    {<<>>} \cup
    UNION { { Join(ls, NL) : ls \in [1..n -> LinePool] } : n \in 1..MaxLines }

\* The characters the texts of the character-level runs are made of: the
\* characters of two dictionary terms, one a suffix of the other, the
\* delimiters of a literal span, a Latin letter and the vertical bar.
CharPool == {"{dip}", "{chya}", "{kol}", "((", "))", "a", "|"}

\* The pieces the texts of the character-level runs are put together from:
\* the characters of the pool, and the characters of the first token of the
\* protector, typed as they stand.
Pieces == { <<c>> : c \in CharPool } \cup { Token(0) }

RECURSIVE Concat(_)
Concat(ps) == IF ps = <<>> THEN <<>> ELSE Head(ps) \o Concat(Tail(ps))

\* The texts of the character-level runs: one to MaxLen pieces.
CharTexts == UNION { { Concat(ps) : ps \in [1..n -> Pieces] } : n \in 1..MaxLen }

Subtypes == {"none", "bot_message", "message_changed", "message_deleted"}

Events(texts) ==
    [text : texts, subtype : Subtypes, channel : {"C1"}, ts : {"100.1"},
     thread_ts : {"none"}, user : {"U1"}, files : {<<>>}]

\* The users of the workspace
Users == {"U1", "U2"}

\* The attachments of a source message: none, or two files
FileLists == { <<>>, <<"F1", "F2">> }

\* A form with a header marker, a team and one request line; the cards of
\* the status runs were rendered for it
CardText ==
    Join(<< NewMarker,
            TeamLabel \o <<" ", "a">>,
            MainLabel \o <<" ", "{chya}", "{kol}">> >>, NL)

\* The texts of the envelope runs: three forms, one of them with a team
\* name in Hangul, and three texts that are not forms (Latin, Korean, and
\* a blank that is not empty).
EnvelopeTexts ==
    { CardText,
      Join(<< TeamLabel \o <<" ", "{chya}", "{kol}">>, MainLabel \o <<" ", "h", "i">> >>, NL),
      Join(<< MainLabel \o <<" ", "h", "i">>, DetailLabel \o <<" ", "1">> >>, NL),
      <<"h", "i">>,
      <<"{chya}", "{kol}">>,
      <<" ">> }

\* The events of the envelope runs: each text from every author, with and
\* without attachments, at the top of the channel (no thread_ts) and as a
\* reply in the thread of the message "90.1".
EnvelopeEvents ==
    [text : EnvelopeTexts, subtype : {"none", "bot_message"}, channel : {"C1"},
     ts : {"100.1"}, thread_ts : {"none", "90.1"}, user : Users, files : FileLists]

\* The message events of the runs in which message and status events are
\* handled side by side: a form and a text that is not one, from either
\* user.
SharedEvents ==
    [text : {CardText, <<"h", "i">>}, subtype : {"none"}, channel : {"C1"},
     ts : {"100.1"}, thread_ts : {"none"}, user : Users, files : {<<>>}]

NoEvent == [subtype |-> "none"]
NoLocal == [isForm |-> FALSE]

VARIABLES
    event,      \* the event the handler is working on
    pc,         \* where the handler is
    local,      \* the handler's constants: header, team, main, detail, isForm, targetLang
    calls,      \* the translateText calls of the event, in the order they were made
    outbound,   \* the calls to the messaging API issued for the event, in order,
                \* each with the answer of the messaging layer once it has come
    archive,    \* process.env.ARCHIVE_CHANNEL_ID ("" when not set)
    inputs,     \* what the events of the run are drawn from: "lines", "chars",
                \* "envelope" or "shared"
                \* ("cards" in the runs of the status handlers, which take no text)
    store,      \* the cards at the messaging layer that the status handlers work
                \* on: the blocks of each, by channel and timestamp
    tasks       \* the status events delivered so far, each with the position of
                \* its handler

vars == <<event, pc, local, calls, outbound, archive, inputs, store, tasks>>

\* ------------------------------------------------------------------------
\* The message handler
\* ------------------------------------------------------------------------
\* The guard at the top of the handler (Discarded_BotOnly: the guard of
\* the earlier revisions, which lets edited and deleted messages through).
Discarded_BotOnly(e) == e.subtype = "bot_message"
Discarded(e) ==
    \/ e.subtype = "bot_message"
    \/ e.subtype = "message_changed"
    \/ e.subtype = "message_deleted"
    \/ e.text = <<>>

\* bodyText: the text, without its first line when that is a header marker
BodyText(text) ==
    IF parseHeader(text) /= <<>>
    THEN Trim(Join(Tail(Split(text, NL)), NL))
    ELSE text

\* isForm: one populated field is enough (isForm_AllThree: the superseded
\* rule that asks for all three).
isForm_AllThree(team, main, detail) == team /= <<>> /\ main /= <<>> /\ detail /= <<>>
isForm(team, main, detail) == team /= <<>> \/ main /= <<>> \/ detail /= <<>>

targetLang(text) == IF isKorean(text) THEN "English" ELSE "Korean"

\* One call translateText(replaced, lang) made for a unit (a line of a
\* field, or the whole text): answered at once with the notice when the
\* content is blank, sent to the backend otherwise (TranslateCall_OwnLang:
\* a call that derives the language from its own content).
TranslateCall_OwnLang(field, pre, lang) ==
    [field |-> field, content |-> pre.replaced, placeholders |-> pre.placeholders,
     lang |-> targetLang(pre.replaced),
     state |-> IF ShortCircuits(pre.replaced) THEN "short" ELSE "pending",
     result |-> IF ShortCircuits(pre.replaced) THEN Notice ELSE <<>>]
TranslateCall(field, pre, lang) ==
    [field |-> field, content |-> pre.replaced, placeholders |-> pre.placeholders,
     lang |-> lang,
     state |-> IF ShortCircuits(pre.replaced) THEN "short" ELSE "pending",
     result |-> IF ShortCircuits(pre.replaced) THEN Notice ELSE <<>>]

\* The fan-out of the form flow: one call per line of main, then one per
\* line of detail, all made before the handler first yields.
FormCalls(main, detail, lang) ==
    LET mainLines == Split(main, NL)
        detailLines == Split(detail, NL)
    IN  [k \in 1..Len(mainLines) |->
            TranslateCall("main", preprocessFixedWords(mainLines[k]), lang)]
        \o [k \in 1..Len(detailLines) |->
            TranslateCall("detail", preprocessFixedWords(detailLines[k]), lang)]

PlainCalls(text, lang) == << TranslateCall("text", preprocessFixedWords(text), lang) >>

\* The restored results of the calls of one field, in call order, blank
\* ones filtered out.
RECURSIVE OfField(_, _)
OfField(cs, field) ==
    IF cs = <<>> THEN <<>>
    ELSE IF Head(cs).field = field
         THEN <<postprocessFixedWords(Head(cs).result, Head(cs).placeholders)>>
              \o OfField(Tail(cs), field)
         ELSE OfField(Tail(cs), field)

ResultList(cs, field) == FilterNonBlank(OfField(cs, field))

Init ==
    /\ event = NoEvent
    /\ pc = "idle"
    /\ local = NoLocal
    /\ calls = <<>>
    /\ outbound = <<>>
    /\ archive \in {<<>>, <<"C_ARCHIVE">>}
    /\ inputs = "lines"
    /\ store = <<>>
    /\ tasks = <<>>

\* The start of a character-level run: no archive channel is configured.
InitChars ==
    /\ event = NoEvent
    /\ pc = "idle"
    /\ local = NoLocal
    /\ calls = <<>>
    /\ outbound = <<>>
    /\ archive = <<>>
    /\ inputs = "chars"
    /\ store = <<>>
    /\ tasks = <<>>

\* The start of the envelope runs
InitEnvelope ==
    /\ event = NoEvent
    /\ pc = "idle"
    /\ local = NoLocal
    /\ calls = <<>>
    /\ outbound = <<>>
    /\ archive \in {<<>>, <<"C_ARCHIVE">>}
    /\ inputs = "envelope"
    /\ store = <<>>
    /\ tasks = <<>>

\* The messaging layer delivers an event.
Receive ==
    /\ pc = "idle"
    /\ \E e \in (IF inputs = "lines" THEN Events(Texts)
                 ELSE IF inputs = "chars" THEN Events(CharTexts)
                 ELSE IF inputs = "shared" THEN SharedEvents
                 ELSE EnvelopeEvents) : event' = e
    /\ pc' = "received"
    /\ local' = NoLocal
    /\ calls' = <<>>
    /\ outbound' = <<>>
    /\ UNCHANGED <<archive, inputs, store, tasks>>

\* The handler up to its first await: guard, parsing, branch, and the
\* translateText calls of the branch taken.
Start ==
    /\ pc = "received"
    /\ IF Discarded(event)
       THEN /\ pc' = "discarded"
            /\ UNCHANGED <<local, calls>>
       ELSE LET text == event.text
                p == parseSections(BodyText(text))
                form == isForm(p.team, p.main, p.detail)
                lang == targetLang(text)
            IN  /\ local' = [header |-> parseHeader(text), team |-> p.team,
                             main |-> p.main, detail |-> p.detail,
                             isForm |-> form, targetLang |-> lang]
                /\ calls' = IF form THEN FormCalls(p.main, p.detail, lang)
                                    ELSE PlainCalls(text, lang)
                /\ pc' = IF form THEN "awaitForm" ELSE "awaitPlain"
    /\ UNCHANGED <<event, outbound, archive, inputs, store, tasks>>

\* The await of the handler on its translateText calls (Promise.all in the
\* form flow, the single call in the plain flow): rejected as soon as one
\* call has failed, fulfilled when every call has its answer
\* (JoinState_AllSettled: a join that waits for every call and goes on
\* whatever the outcomes, as Promise.allSettled would).
JoinState_AllSettled(cs) ==
    IF \A k \in 1..Len(cs) : cs[k].state /= "pending" THEN "fulfilled" ELSE "pending"
JoinState_DoneOnly(cs) ==
    IF \E k \in 1..Len(cs) : cs[k].state = "failed" THEN "rejected"
    ELSE IF \A k \in 1..Len(cs) : cs[k].state = "done" THEN "fulfilled"
    ELSE "pending"
JoinState(cs) ==
    IF \E k \in 1..Len(cs) : cs[k].state = "failed" THEN "rejected"
    ELSE IF \A k \in 1..Len(cs) : cs[k].state \in {"short", "done"} THEN "fulfilled"
    ELSE "pending"

\* The backend answers one of the calls in flight, in any order.  A failure
\* rejects the await of the handler, whose catch logs it; the answers
\* still in flight are then ignored.
BackendRespond ==
    /\ pc \in {"awaitForm", "awaitPlain"}
    /\ \E k \in 1..Len(calls), o \in BackendOutcomes :
          /\ calls[k].state = "pending"
          /\ calls' = IF o = "fail"
                       THEN [calls EXCEPT ![k].state = "failed"]
                       ELSE [calls EXCEPT
                               ![k].state = "done",
                               ![k].result = IF o = "ok"
                                             THEN BackendTranslate(calls[k].content,
                                                                   calls[k].lang)
                                             ELSE <<>>]
          /\ pc' = IF JoinState(calls') = "rejected" THEN "caught" ELSE pc
    /\ UNCHANGED <<event, local, outbound, archive, inputs, store, tasks>>

AllAnswered == JoinState(calls) = "fulfilled"

\* The card of the form flow, from the answers (Card_BotAuthor: a card
\* that names the user the bot runs as in place of the author;
\* Card_TeamTranslated: the card of the earliest variant, which shows the
\* team name as the backend translates it).
Card_TeamTranslated ==
    CardBlocks(local.header, BackendTranslate(local.team, local.targetLang),
               Highlighted(ResultList(calls, "main")),
               Highlighted(ResultList(calls, "detail")),
               event.files, event.user)
Card_BotAuthor ==
    CardBlocks(local.header, local.team,
               Highlighted(ResultList(calls, "main")),
               Highlighted(ResultList(calls, "detail")),
               event.files, "U1")
Card ==
    CardBlocks(local.header, local.team,
               Highlighted(ResultList(calls, "main")),
               Highlighted(ResultList(calls, "detail")),
               event.files, event.user)

\* Form flow, after the join: render the card and post it to the thread of
\* the source message.
PostCard ==
    /\ pc = "awaitForm"
    /\ AllAnswered
    /\ outbound' = Append(outbound,
          [api |-> "chat.postMessage", channel |-> event.channel,
           thread_ts |-> event.ts, blocks |-> Card,
           text |-> FallbackText(local.header, local.team, local.main, local.detail),
           ack |-> "pending"])
    /\ pc' = "awaitCardPost"
    /\ UNCHANGED <<event, local, calls, archive, inputs, store, tasks>>

\* The answer of the messaging layer to the k-th call, noted on the call
Acked(out, k, answer) == [out EXCEPT ![k].ack = answer]

\* The messaging layer answers the card post; on success the handler posts
\* the mirror when an archive channel is configured
\* (CardPosted_MirrorRegardless: a handler that does not wait for the
\* outcome of the card post before it mirrors).
CardPosted_MirrorRegardless ==
    /\ pc = "awaitCardPost"
    /\ \E ok \in BOOLEAN :
          IF archive /= <<>>
          THEN /\ outbound' = Append(Acked(outbound, 1, IF ok THEN "ok" ELSE "error"),
                      [api |-> "chat.postMessage", channel |-> archive[1],
                       thread_ts |-> "none", blocks |-> Card,
                       text |-> FallbackText(local.header, local.team,
                                             local.main, local.detail),
                       ack |-> "pending"])
               /\ pc' = "awaitArchivePost"
          ELSE /\ pc' = IF ok THEN "done" ELSE "caught"
               /\ outbound' = Acked(outbound, 1, IF ok THEN "ok" ELSE "error")
    /\ UNCHANGED <<event, local, calls, archive, inputs, store, tasks>>
CardPosted ==
    /\ pc = "awaitCardPost"
    /\ \E ok \in BOOLEAN :
          IF ~ok THEN /\ pc' = "caught"
                      /\ outbound' = Acked(outbound, 1, "error")
          ELSE IF archive /= <<>>
          THEN /\ outbound' = Append(Acked(outbound, 1, "ok"),
                      [api |-> "chat.postMessage", channel |-> archive[1],
                       thread_ts |-> "none", blocks |-> Card,
                       text |-> FallbackText(local.header, local.team,
                                             local.main, local.detail),
                       ack |-> "pending"])
               /\ pc' = "awaitArchivePost"
          ELSE /\ pc' = "done"
               /\ outbound' = Acked(outbound, 1, "ok")
    /\ UNCHANGED <<event, local, calls, archive, inputs, store, tasks>>

ArchivePosted ==
    /\ pc = "awaitArchivePost"
    /\ \E ok \in BOOLEAN :
          /\ pc' = IF ok THEN "done" ELSE "caught"
          /\ outbound' = Acked(outbound, Len(outbound), IF ok THEN "ok" ELSE "error")
    /\ UNCHANGED <<event, local, calls, archive, inputs, store, tasks>>

\* The restored translation of the whole text
Final == postprocessFixedWords(calls[1].result, calls[1].placeholders)

\* Plain flow, after the translation: post the reply.
PostReply ==
    /\ pc = "awaitPlain"
    /\ AllAnswered
    /\ outbound' = Append(outbound,
          [api |-> "chat.postMessage", channel |-> event.channel,
           thread_ts |-> event.thread_ts,
           blocks |-> << [type |-> "context", elements |-> << <<"Auto Translator Bot">> >>],
                         [type |-> "divider"],
                         [type |-> "section",
                          text |-> (IF isKorean(event.text)
                                    THEN <<"*Translation Result*">>
                                    ELSE <<"*Translation Result (ko)*">>)
                                   \o <<NL, ">", " ">> \o Final] >>,
           text |-> <<"Translation result: ">> \o Final,
           ack |-> "pending"])
    /\ pc' = "awaitReplyPost"
    /\ UNCHANGED <<event, local, calls, archive, inputs, store, tasks>>

ReplyPosted ==
    /\ pc = "awaitReplyPost"
    /\ \E ok \in BOOLEAN :
          /\ pc' = IF ok THEN "done" ELSE "caught"
          /\ outbound' = Acked(outbound, Len(outbound), IF ok THEN "ok" ELSE "error")
    /\ UNCHANGED <<event, local, calls, archive, inputs, store, tasks>>

\* The handler has returned; the process waits for the next event.
Return ==
    /\ pc \in {"discarded", "caught", "done"}
    /\ pc' = "idle"
    /\ event' = NoEvent
    /\ local' = NoLocal
    /\ calls' = <<>>
    /\ outbound' = <<>>
    /\ UNCHANGED <<archive, inputs, store, tasks>>

Next ==
    \/ Receive
    \/ Start
    \/ BackendRespond
    \/ PostCard
    \/ CardPosted
    \/ ArchivePosted
    \/ PostReply
    \/ ReplyPosted
    \/ Return

Spec == Init /\ [][Next]_vars

\* The handler on the character-level texts.  These texts have no line
\* break and no label, so the handler takes the plain flow only.
NextChars ==
    \/ Receive
    \/ Start
    \/ BackendRespond
    \/ PostReply
    \/ ReplyPosted
    \/ Return

SpecChars == InitChars /\ [][NextChars]_vars

\* The handler on the events of the envelope runs
SpecEnvelope == InitEnvelope /\ [][Next]_vars

\* Start seen from the position of the handler: Start is enabled exactly
\* when an event has been received, and it is the only step that leaves
\* that position.
StartStep == pc = "received" /\ pc' \in {"discarded", "awaitForm", "awaitPlain"}

\* The same under the scheduling of the runtime: a continuation of the
\* handler that is ready is run by the event loop, and every call to the
\* backend or to the messaging layer is answered (by its result or by an
\* error).  Nothing obliges a user to send a message.
SpecEnvelopeFair ==
    /\ InitEnvelope
    /\ [][Next]_vars
    /\ WF_pc(StartStep)
    /\ WF_vars(BackendRespond)
    /\ WF_vars(PostCard)
    /\ WF_vars(CardPosted)
    /\ WF_vars(ArchivePosted)
    /\ WF_vars(PostReply)
    /\ WF_vars(ReplyPosted)

\* ------------------------------------------------------------------------
\* The status handlers
\* ------------------------------------------------------------------------
\* The statusText of each handler, the emoji left out
StatusLabel_Shifted(action) ==
    CASE action = "status_pending" -> "*Pending Review*"
      [] action = "status_in_progress" -> "*In Progress*"
      [] action = "status_completed" -> "*In Progress*"
      [] action = "status_needs_revision" -> "*Needs Revision*"
StatusLabel(action) ==
    CASE action = "status_pending" -> "*Pending Review*"
      [] action = "status_in_progress" -> "*In Progress*"
      [] action = "status_completed" -> "*Completed*"
      [] action = "status_needs_revision" -> "*Needs Revision*"

StatusText(action) == <<"*Status:*", NL, StatusLabel(action)>>

\* The text of the assignee element: the label, then the mention <@id>
AssigneeText(user) == <<"*Assignee:* ", user>>

\* b.block_id === 'status_section'
IsStatusBlock(b) == "block_id" \in DOMAIN b /\ b.block_id = "status_section"

\* updateStatusBlock: the text of the first block with the status block id
\* is set; without such a block nothing is done
\* (updateStatusBlock_FirstSection: a lookup by block type instead).
updateStatusBlock_FirstSection(blocks, statusText) ==
    IF \E k \in 1..Len(blocks) : blocks[k].type = "section"
    THEN LET k == CHOOSE k \in 1..Len(blocks) :
                    /\ blocks[k].type = "section"
                    /\ \A j \in 1..(k - 1) : blocks[j].type /= "section"
         IN  [blocks EXCEPT ![k] = [type |-> "section", text |-> statusText]]
    ELSE blocks
updateStatusBlock(blocks, statusText) ==
    IF \E k \in 1..Len(blocks) : IsStatusBlock(blocks[k])
    THEN LET k == CHOOSE k \in 1..Len(blocks) :
                    /\ IsStatusBlock(blocks[k])
                    /\ \A j \in 1..(k - 1) : ~IsStatusBlock(blocks[j])
         IN  [blocks EXCEPT ![k].text = statusText]
    ELSE blocks

\* blocks[blocks.length-1].elements[0].text = ...: the assignment throws a
\* TypeError when there is no last block, or the last block has no first
\* element (SetAssignee_Appending: += in place of =).
SetAssignee_Appending(blocks, user) ==
    [blocks EXCEPT ![Len(blocks)].elements[1] = @ \o AssigneeText(user)]
SetAssignee(blocks, user) ==
    [blocks EXCEPT ![Len(blocks)].elements[1] = AssigneeText(user)]

AssignmentThrows(blocks) ==
    \/ blocks = <<>>
    \/ "elements" \notin DOMAIN blocks[Len(blocks)]
    \/ blocks[Len(blocks)].elements = <<>>

\* The body of the try of a status handler up to the update call: the
\* blocks of the payload with the status and the assignee set, or a throw.
StatusMutation(blocks, action, user) ==
    LET marked == updateStatusBlock(blocks, StatusText(action))
    IN  IF AssignmentThrows(marked)
        THEN [thrown |-> TRUE, blocks |-> marked]
        ELSE [thrown |-> FALSE, blocks |-> SetAssignee(marked, user)]

\* The call client.chat.update of a status handler (UpdateCall_ToOrigin: a
\* handler that addresses the card of the thread, whichever copy the button
\* was pressed on).
UpdateCall_ToOrigin(task, blocks) ==
    [api |-> "chat.update", channel |-> "C1", ts |-> "100.2", blocks |-> blocks,
     text |-> <<"Design Request Form - Status: ", StatusLabel(task.action)>>]
UpdateCall(task, blocks) ==
    [api |-> "chat.update", channel |-> task.channel, ts |-> task.ts,
     blocks |-> blocks,
     text |-> <<"Design Request Form - Status: ", StatusLabel(task.action)>>]

\* The calls of a translated form, answered by the backend
Answered(cs) ==
    [k \in 1..Len(cs) |->
        IF cs[k].state = "pending"
        THEN [cs[k] EXCEPT !.state = "done",
                           !.result = BackendTranslate(cs[k].content, cs[k].lang)]
        ELSE cs[k]]

\* The card the form flow renders for a text, its files and its author
RenderedCard(text, files, user) ==
    LET p == parseSections(BodyText(text))
        cs == Answered(FormCalls(p.main, p.detail, targetLang(text)))
    IN  CardBlocks(parseHeader(text), p.team,
                   Highlighted(ResultList(cs, "main")),
                   Highlighted(ResultList(cs, "detail")),
                   files, user)

\* The card of the earlier revision, still in the channels: it ends with
\* one context block for status and requester, and has no status block.
EarlierCard(text, files, user) ==
    LET card == RenderedCard(text, files, user)
    IN  SubSeq(card, 1, Len(card) - 2)
        \o << [type |-> "context",
               elements |-> << <<"*Status:* Pending Review | *Requested by:* ", user>> >>] >>

Cards ==
    { RenderedCard(CardText, files, "U1") : files \in FileLists }
    \cup { EarlierCard(CardText, <<"F1">>, "U1") }

\* The card in the thread of the source message, and its mirror
Origin == [channel |-> "C1", ts |-> "100.2"]
Mirror == [channel |-> "C_ARCHIVE", ts |-> "200.1"]
Messages == {Origin, Mirror}

StatusActions ==
    {"status_pending", "status_in_progress", "status_completed", "status_needs_revision"}

\* The start of a run of the status handlers: a card was posted and
\* mirrored, and the message handler is idle.
InitStatus ==
    /\ event = NoEvent
    /\ pc = "idle"
    /\ local = NoLocal
    /\ calls = <<>>
    /\ outbound = <<>>
    /\ archive = <<"C_ARCHIVE">>
    /\ inputs = "cards"
    /\ \E card \in Cards : store = [m \in Messages |-> card]
    /\ tasks = <<>>

\* A user presses a status button of a card: the messaging layer delivers
\* the event with the card as it stands, and the handler awaits ack().
Click(action, user, m) ==
    /\ Len(tasks) < MaxClicks
    /\ tasks' = Append(tasks,
          [action |-> action, user |-> user, channel |-> m.channel, ts |-> m.ts,
           payload |-> store[m], call |-> <<>>, pc |-> "awaitAck"])
    /\ UNCHANGED <<event, pc, local, calls, outbound, archive, inputs, store>>

\* A handler that has returned: its event and its locals are gone.
Returned(outcome) ==
    [action |-> "none", user |-> "none", channel |-> "none", ts |-> "none",
     payload |-> <<>>, call |-> <<>>, pc |-> outcome]

\* The handler after ack(): it sets status and assignee in the blocks of
\* its payload and issues the update, or throws into its catch, which logs
\* and returns (StatusRun_LastAuthor: a handler that reads the user from a
\* variable of the module which the message handler sets to the author of
\* the message it is working on; StatusRun_SharedUser: a handler that keeps
\* the acting user
\* in a variable of the module, written on entry by every handler).
StatusRun_SharedUser(t) ==
    /\ t <= Len(tasks)
    /\ tasks[t].pc = "awaitAck"
    /\ LET mu == StatusMutation(tasks[t].payload, tasks[t].action,
                                tasks[Len(tasks)].user)
       IN  tasks' = IF mu.thrown
                    THEN [tasks EXCEPT ![t] = Returned("caught")]
                    ELSE [tasks EXCEPT ![t].call = <<UpdateCall(tasks[t], mu.blocks)>>,
                                       ![t].pc = "awaitUpdate"]
    /\ UNCHANGED <<event, pc, local, calls, outbound, archive, inputs, store>>
StatusRun_LastAuthor(t) ==
    /\ t <= Len(tasks)
    /\ tasks[t].pc = "awaitAck"
    /\ LET user == IF pc \in {"idle", "received"} THEN tasks[t].user ELSE event.user
           mu == StatusMutation(tasks[t].payload, tasks[t].action, user)
       IN  tasks' = IF mu.thrown
                    THEN [tasks EXCEPT ![t] = Returned("caught")]
                    ELSE [tasks EXCEPT ![t].call = <<UpdateCall(tasks[t], mu.blocks)>>,
                                       ![t].pc = "awaitUpdate"]
    /\ UNCHANGED <<event, pc, local, calls, outbound, archive, inputs, store>>
StatusRun(t) ==
    /\ t <= Len(tasks)
    /\ tasks[t].pc = "awaitAck"
    /\ LET mu == StatusMutation(tasks[t].payload, tasks[t].action, tasks[t].user)
       IN  tasks' = IF mu.thrown
                    THEN [tasks EXCEPT ![t] = Returned("caught")]
                    ELSE [tasks EXCEPT ![t].call = <<UpdateCall(tasks[t], mu.blocks)>>,
                                       ![t].pc = "awaitUpdate"]
    /\ UNCHANGED <<event, pc, local, calls, outbound, archive, inputs, store>>

\* chat.update at the messaging layer: the blocks of the message addressed
\* are replaced as a whole.
Updated(st, call) ==
    LET m == [channel |-> call.channel, ts |-> call.ts]
    IN  IF call.api = "chat.update" /\ m \in DOMAIN st
        THEN [st EXCEPT ![m] = call.blocks]
        ELSE st

\* The messaging layer answers the update of a handler: applied, or
\* refused, which the catch of the handler logs; the handler returns
\* (UpdateAnswered_Retry: a handler that issues the update once more when
\* it was refused).
UpdateAnswered_Retry(t) ==
    /\ t <= Len(tasks)
    /\ tasks[t].pc = "awaitUpdate"
    /\ \E ok \in BOOLEAN :
          IF ok
          THEN /\ store' = Updated(store, tasks[t].call[1])
               /\ tasks' = [tasks EXCEPT ![t] = Returned("done")]
          ELSE /\ store' = store
               /\ tasks' = IF Len(tasks[t].call) = 1
                            THEN [tasks EXCEPT ![t].call = @ \o @]
                            ELSE [tasks EXCEPT ![t] = Returned("caught")]
    /\ UNCHANGED <<event, pc, local, calls, outbound, archive, inputs>>
UpdateAnswered(t) ==
    /\ t <= Len(tasks)
    /\ tasks[t].pc = "awaitUpdate"
    /\ \E ok \in BOOLEAN :
          IF ok
          THEN /\ store' = Updated(store, tasks[t].call[1])
               /\ tasks' = [tasks EXCEPT ![t] = Returned("done")]
          ELSE /\ store' = store
               /\ tasks' = [tasks EXCEPT ![t] = Returned("caught")]
    /\ UNCHANGED <<event, pc, local, calls, outbound, archive, inputs>>

NextStatus ==
    \/ \E action \in StatusActions, user \in Users, m \in Messages :
          Click(action, user, m)
    \/ \E t \in 1..MaxClicks : StatusRun(t)
    \/ \E t \in 1..MaxClicks : UpdateAnswered(t)

SpecStatus == InitStatus /\ [][NextStatus]_vars

\* ------------------------------------------------------------------------
\* Message and status events side by side
\* ------------------------------------------------------------------------
\* The process serves both kinds of event; a handler that awaits yields to
\* the handlers of the other events.  A card is in the thread; users send
\* messages and press one of its buttons.
InitShared ==
    /\ event = NoEvent
    /\ pc = "idle"
    /\ local = NoLocal
    /\ calls = <<>>
    /\ outbound = <<>>
    /\ archive = <<"C_ARCHIVE">>
    /\ inputs = "shared"
    /\ store = [m \in Messages |-> RenderedCard(CardText, <<>>, "U1")]
    /\ tasks = <<>>

NextShared ==
    \/ Next
    \/ \E user \in Users : Click("status_in_progress", user, Origin)
    \/ \E t \in 1..MaxClicks : StatusRun(t)
    \/ \E t \in 1..MaxClicks : UpdateAnswered(t)

SpecShared == InitShared /\ [][NextShared]_vars

\* ------------------------------------------------------------------------
\* Vocabulary of the properties
\* ------------------------------------------------------------------------
\* The handler has passed its guard and taken a branch.
Started == pc \notin {"idle", "received", "discarded"}

\* The branch taken, read off the translateText calls the handler made: the
\* form flow translates lines of fields, the plain flow the whole text.
TookFormFlow == Started /\ \A k \in 1..Len(calls) : calls[k].field \in {"main", "detail"}
TookPlainFlow == Started /\ Len(calls) = 1 /\ calls[1].field = "text"

\* The calls that went to the backend (the HTTP call was made)
SentToBackend == { k \in 1..Len(calls) : calls[k].state /= "short" }

\* The posts to the messaging layer that carry a card
IsCard(post) == post.blocks[1].type = "header"
CardPosts == { k \in 1..Len(outbound) : IsCard(outbound[k]) }

\* The lines of the body of the event, as parseSections sees them
BodyLines == Split(BodyText(event.text), NL)

Labels == <<TeamLabel, MainLabel, DetailLabel>>
FieldOf(st, f) == IF f = 1 THEN st.team ELSE IF f = 2 THEN st.main ELSE st.detail
IsLabelLine(line) == \E f \in 1..3 : StartsWith(Trim(line), Labels[f])
IsMarkerLine(line) == Trim(line) \in {NewMarker, EditMarker}

\* ------------------------------------------------------------------------
\* C1  The handler takes the form-card flow exactly when at least one of
\*     the three parsed fields is non-empty (one is enough), and the
\*     whole-message translation flow when all three are empty.
\* ------------------------------------------------------------------------
C1_FormIffSomeField ==
    Started =>
        LET p == parseSections(BodyText(event.text))
            some == p.team /= <<>> \/ p.main /= <<>> \/ p.detail /= <<>>
        IN  /\ TookFormFlow <=> some
            /\ TookPlainFlow <=> ~some
            /\ \A k \in 1..Len(outbound) : IsCard(outbound[k]) <=> some

\* A card was posted for a form with a team name and nothing else.
C1_Witness ==
    /\ pc = "done"
    /\ TookFormFlow
    /\ CardPosts /= {}
    /\ local.team /= <<>> /\ local.main = <<>> /\ local.detail = <<>>

RECURSIVE NextLabel(_, _)
NextLabel(lines, k) ==
    IF k + 1 > Len(lines) THEN Len(lines) + 1
    ELSE IF IsLabelLine(lines[k + 1]) THEN k + 1
    ELSE NextLabel(lines, k + 1)

\* What the claim says the section of the label line k holds when the next
\* label line is reached: the inline text and the lines that follow, the
\* blank ones left out.
SectionAsClaimed(lines, k, f) ==
    LET m == NextLabel(lines, k)
        inline == Trim(DropPrefix(Trim(lines[k]), Labels[f]))
    IN  Join(FilterNonBlank(<<inline>> \o [j \in 1..(m - 1 - k) |-> Trim(lines[k + j])]), NL)

C3_EverySectionAppends ==
    Started =>
        LET lines == BodyLines
        IN  \A k \in 1..Len(lines) : \A f \in 1..3 :
                StartsWith(Trim(lines[k]), Labels[f]) =>
                    FieldOf(ParseLoop(lines, NextLabel(lines, k) - 1), f)
                        = SectionAsClaimed(lines, k, f)

\* ------------------------------------------------------------------------
\* C4  In the form flow a field line made only of digits is never passed to
\*     the translation backend, and the card shows it in a bullet exactly
\*     as it was written.
\* ------------------------------------------------------------------------
DigitsOnly(s) ==
    /\ s /= <<>>
    /\ \A i \in 1..Len(s) : s[i] \in {"0", "1", "2", "3", "4", "5", "6", "7", "8", "9"}

\* The lines of a parsed field
FieldLines(field) == Split(IF field = "main" THEN local.main ELSE local.detail, NL)

\* The text of the request section of a posted card
SectionOf(post, field) == post.blocks[IF field = "main" THEN 4 ELSE 6].text

C4_DigitLinesNeverSent ==
    TookFormFlow =>
        \A field \in {"main", "detail"} : \A i \in 1..Len(FieldLines(field)) :
            LET line == FieldLines(field)[i]
            IN  DigitsOnly(Trim(line)) =>
                    /\ \A k \in SentToBackend :
                          ~(calls[k].field = field /\ calls[k].content = line)
                    /\ \A n \in CardPosts :
                          Includes(SectionOf(outbound[n], field), <<"{bullet}", " ">> \o line)

\* ------------------------------------------------------------------------
\* C5  In the form flow a field line that contains the reserved keyword is
\*     never passed to the translation backend; the card shows its text
\*     unchanged but for the emphasis markup around the keyword.
\* ------------------------------------------------------------------------
C5_KeywordLinesNeverSent ==
    TookFormFlow =>
        \A field \in {"main", "detail"} : \A i \in 1..Len(FieldLines(field)) :
            LET line == FieldLines(field)[i]
            IN  Includes(line, Keyword) =>
                    /\ \A k \in SentToBackend :
                          ~(calls[k].field = field /\ Includes(calls[k].content, Keyword))
                    /\ \A n \in CardPosts :
                          Includes(SectionOf(outbound[n], field),
                                   <<"{bullet}", " ">> \o highlightWord(line, Keyword))

\* ------------------------------------------------------------------------
\* C6  When the design-requests (image-requests) field of a form is empty,
\*     the section of the card shows the placeholder note and no bullet; a
\*     section has no more bullets than its field has non-empty lines.
\* ------------------------------------------------------------------------
RECURSIVE Count(_, _)
Count(s, c) ==
    IF s = <<>> THEN 0 ELSE (IF Head(s) = c THEN 1 ELSE 0) + Count(Tail(s), c)

NoteOf(field) == IF field = "main" THEN NoDesignNote ELSE NoImageNote
TitleOf(field) == IF field = "main" THEN DesignTitle ELSE ImageTitle

C6_EmptyFieldShowsNote ==
    \A n \in CardPosts : \A field \in {"main", "detail"} :
        LET text == SectionOf(outbound[n], field)
        IN  /\ FieldLines(field) = <<<<>>>> =>
                /\ text = TitleOf(field) \o <<NL>> \o NoteOf(field)
                /\ Count(text, "{bullet}") = 0
            /\ Count(text, "{bullet}") <= Len(FilterNonBlank(FieldLines(field)))

\* ------------------------------------------------------------------------
\* C7  Round trip of the Placeholder Protector: when the backend returns
\*     the tokens intact, the restored translation contains every
\*     bracket-delimited span of the input exactly as written, delimiters
\*     included, and no leftover token.
\* ------------------------------------------------------------------------
\* The bracket-delimited spans of a text: the matches of the regex of the
\* literal spans in it
SpansOf(text) ==
    LET phs == BracketLoop(text, 0, <<>>).placeholders
    IN  { phs[i][2] : i \in 1..Len(phs) }

C7_RoundTripKeepsSpans ==
    (/\ TookPlainFlow
     /\ calls[1].state = "done"
     /\ calls[1].result = BackendTranslate(calls[1].content, calls[1].lang))
    => /\ \A span \in SpansOf(event.text) : Includes(Final, span)
       /\ \A idx \in 0..Len(calls[1].placeholders) : ~Includes(Final, Token(idx))

\* ------------------------------------------------------------------------
\* C8  isKorean(text) is true exactly when the text has a character in the
\*     Hangul syllable or jamo ranges; a text of other characters only,
\*     such as '|', is never classified as Korean.
\* ------------------------------------------------------------------------
HasHangul(text) ==
    \E i \in 1..Len(text) :
        text[i] \in HangulSyllables \cup JamoConsonants \cup JamoVowels

C8_KoreanIffHangul ==
    Started =>
        /\ isKorean(event.text) <=> HasHangul(event.text)
        /\ local.targetLang = "English" <=> HasHangul(event.text)

\* ------------------------------------------------------------------------
\* C9  Every backend call made for an event uses one and the same target
\*     language: English when isKorean of the full event text is true,
\*     Korean otherwise.
\* ------------------------------------------------------------------------
C9_OneTargetLanguage ==
    \A k \in SentToBackend :
        calls[k].lang = IF \E i \in 1..Len(event.text) : event.text[i] \in KoreanClass
                        THEN "English" ELSE "Korean"

\* A form in Korean whose card was posted after two backend calls, one of
\* them for a line without any Korean character.
C9_Witness ==
    /\ pc = "done"
    /\ TookFormFlow
    /\ Cardinality(SentToBackend) >= 2
    /\ \E k \in SentToBackend : ~isKorean(calls[k].content) /\ calls[k].lang = "English"
    /\ \E k \in SentToBackend : isKorean(calls[k].content)

\* ------------------------------------------------------------------------
\* C10 An event whose subtype is bot_message, message_changed or
\*     message_deleted, or which carries no text, is discarded: no backend
\*     call and no outbound call is made for it.
\* ------------------------------------------------------------------------
C10_DiscardedEventsDoNothing ==
    (\/ event.subtype \in {"bot_message", "message_changed", "message_deleted"}
     \/ (pc /= "idle" /\ event.text = <<>>))
    => /\ calls = <<>>
       /\ outbound = <<>>
       /\ pc \in {"received", "discarded"}

\* An edited message whose text is a form was discarded.
C10_Witness ==
    /\ pc = "discarded"
    /\ event.subtype = "message_changed"
    /\ LET p == parseSections(BodyText(event.text)) IN p.main /= <<>>

\* ------------------------------------------------------------------------
\* C16 When a backend call made for an event has failed, the handler is in
\*     its catch and nothing has been posted for the event: no card, no
\*     mirror, no reply, no notice; and no call was made again: the calls
\*     made are one per unit of the event.
\* ------------------------------------------------------------------------
C16_FailedBackendPostsNothing ==
    (\E k \in 1..Len(calls) : calls[k].state = "failed")
    => /\ pc = "caught"
       /\ outbound = <<>>
       /\ Cardinality({k \in 1..Len(calls) : calls[k].state = "failed"}) = 1
       /\ Len(calls) = IF local.isForm
                       THEN Len(Split(local.main, NL)) + Len(Split(local.detail, NL))
                       ELSE 1

\* A form with two backend calls, of which one was answered and the other
\* failed.
C16_Witness ==
    /\ pc = "caught"
    /\ TookFormFlow
    /\ \E k \in 1..Len(calls) : calls[k].state = "failed"
    /\ \E k \in 1..Len(calls) : calls[k].state = "done"

\* ------------------------------------------------------------------------
\* C17 A post to another channel than the one of the event (the mirror) is
\*     issued only when an archive channel is configured, goes to that
\*     channel, comes second, after the card post to the thread of the
\*     event was answered with success, and carries the blocks of that
\*     post; when the mirror post fails the card post stays delivered and
\*     no further call is issued.
\* ------------------------------------------------------------------------
C17_MirrorAfterPrimary ==
    \A k \in 1..Len(outbound) :
        outbound[k].channel /= event.channel
        => /\ archive /= <<>>
           /\ outbound[k].channel = archive[1]
           /\ k = 2
           /\ Len(outbound) = 2
           /\ IsCard(outbound[1])
           /\ outbound[1].channel = event.channel
           /\ outbound[1].thread_ts = event.ts
           /\ outbound[1].ack = "ok"
           /\ outbound[k].blocks = outbound[1].blocks
           /\ outbound[k].ack = "error" => pc = "caught"

\* The mirror post failed after the card post was delivered.
C17_Witness ==
    /\ pc = "caught"
    /\ Len(outbound) = 2
    /\ outbound[1].ack = "ok"
    /\ outbound[2].channel = "C_ARCHIVE"
    /\ outbound[2].ack = "error"

\* ------------------------------------------------------------------------
\* C18 No call that went to the backend has empty or whitespace-only
\*     content; a call with such content was answered by translateText
\*     itself, with the notice.
\* ------------------------------------------------------------------------
C18_BlankNeverSent ==
    \A k \in 1..Len(calls) :
        IF \E i \in 1..Len(calls[k].content) : ~IsSpace(calls[k].content[i])
        THEN k \in SentToBackend
        ELSE /\ k \notin SentToBackend
             /\ calls[k].result = Notice

\* A text of one space was answered with the notice, and the notice was
\* posted as the reply.
C18_Witness ==
    /\ pc = "done"
    /\ TookPlainFlow
    /\ event.text = <<" ">>
    /\ calls[1].state = "short"
    /\ outbound[1].ack = "ok"

\* ------------------------------------------------------------------------
\* Vocabulary of the protector properties
\* ------------------------------------------------------------------------
\* The number of occurrences of p in s, leftmost first, not overlapping
RECURSIVE Occurrences(_, _)
Occurrences(s, p) ==
    IF Len(s) < Len(p) THEN 0
    ELSE IF StartsWith(s, p) THEN 1 + Occurrences(DropPrefix(s, p), p)
    ELSE Occurrences(Tail(s), p)

Terms == { fixedTranslations[k][1] : k \in 1..Len(fixedTranslations) }
TermValues == { fixedTranslations[k][2] : k \in 1..Len(fixedTranslations) }

\* s with every occurrence of the terms of the set blanked out
RECURSIVE Masked(_, _)
Masked(s, terms) ==
    IF terms = {} THEN s
    ELSE LET t == CHOOSE t \in terms : \A u \in terms : Len(u) <= Len(t)
         IN  Masked(ReplaceAll(s, t, <<"#">>), terms \ {t})

\* The occurrences of term t in s that are not part of a longer term
OwnOccurrences(s, t) ==
    Occurrences(Masked(s, { u \in Terms : Len(u) > Len(t) }), t)

ProtectedTerms(s) == { t \in Terms : Includes(s, t) /\ OwnOccurrences(s, t) > 0 }

RECURSIVE SumOwn(_, _)
SumOwn(s, terms) ==
    IF terms = {} THEN 0
    ELSE LET t == CHOOSE t \in terms : TRUE
         IN  OwnOccurrences(s, t) + SumOwn(s, terms \ {t})

ProtectedOccurrences(s) == SumOwn(s, Terms)

\* The placeholders recorded for dictionary terms
TermPlaceholders(phs) == { i \in 1..Len(phs) : phs[i][2] \in TermValues }

\* ------------------------------------------------------------------------
\* C19 (as claimed) The tokens recorded for dictionary terms are as many as
\*     the protected occurrences of terms in the text: each occurrence has
\*     a token of its own.
\* ------------------------------------------------------------------------
C19_TokenPerOccurrence ==
    TookPlainFlow
    => Cardinality(TermPlaceholders(calls[1].placeholders))
         = ProtectedOccurrences(event.text)

\* ------------------------------------------------------------------------
\* C19 (amended) The tokens recorded for dictionary terms are one per
\*     distinct term that occurs in the text, whatever the number of its
\*     occurrences; every occurrence of the term is replaced, so that no
\*     term is left in the content sent to the backend.
\* ------------------------------------------------------------------------
C19_OneTokenPerTerm ==
    TookPlainFlow
    => LET phs == calls[1].placeholders
           T == TermPlaceholders(phs)
       IN  /\ Cardinality(T) = Cardinality(ProtectedTerms(event.text))
           /\ \A i, j \in T : i /= j => phs[i][1] /= phs[j][1] /\ phs[i][2] /= phs[j][2]
           /\ \A t \in Terms : ~Includes(calls[1].content, t)

\* A text in which one term occurs twice went to the backend with the one
\* token of the term in both places.
C19_Witness ==
    /\ TookPlainFlow
    /\ OwnOccurrences(event.text, <<"{chya}", "{kol}">>) = 2
    /\ Len(calls[1].placeholders) = 1
    /\ calls[1].content = Token(0) \o Token(0)

\* ------------------------------------------------------------------------
\* C20 The tokens of one preprocessFixedWords call are pairwise distinct,
\*     no token occurs inside another, and no token occurs in the text as
\*     the author typed it.
\* ------------------------------------------------------------------------
C20_TokensFresh ==
    TookPlainFlow
    => LET phs == calls[1].placeholders
       IN  /\ \A i, j \in 1..Len(phs) :
                 i /= j => phs[i][1] /= phs[j][1] /\ ~Includes(phs[i][1], phs[j][1])
           /\ \A i \in 1..Len(phs) : ~Includes(event.text, phs[i][1])

\* ------------------------------------------------------------------------
\* Vocabulary of the status properties
\* ------------------------------------------------------------------------
LabelOf ==
    [status_pending |-> "*Pending Review*", status_in_progress |-> "*In Progress*",
     status_completed |-> "*Completed*", status_needs_revision |-> "*Needs Revision*"]

StatusBlocksOf(blocks) == { k \in 1..Len(blocks) : IsStatusBlock(blocks[k]) }
HasStatus(blocks) == StatusBlocksOf(blocks) /= {}

\* The card shows the status of the action, and no other
ShowsStatus(blocks, action) ==
    /\ Cardinality(StatusBlocksOf(blocks)) = 1
    /\ \A k \in StatusBlocksOf(blocks) :
          blocks[k].text = <<"*Status:*", NL, LabelOf[action]>>

\* The assignee element of the card names the user
AssignedTo(blocks, user) ==
    /\ blocks /= <<>>
    /\ blocks[Len(blocks)].type = "context"
    /\ blocks[Len(blocks)].elements = << <<"*Assignee:* ", user>> >>

\* The message a status event was raised on
MessageOf(task) == [channel |-> task.channel, ts |-> task.ts]

\* Steps of the handler of the t-th status event: it ran from ack() to its
\* update call; its update was applied.
Ran(t) == t <= Len(tasks) /\ tasks[t].pc = "awaitAck" /\ tasks'[t].pc /= "awaitAck"
Applied(t) == t <= Len(tasks) /\ tasks[t].pc = "awaitUpdate" /\ tasks'[t].pc = "done"

\* ------------------------------------------------------------------------
\* C11 Whatever the status of a card with a status block, each of the four
\*     status events can be raised on it; its handler goes through to the
\*     update, and the card it writes, and the card stored once the update
\*     is applied, shows the label of that event as its one status and the
\*     acting user as assignee.  After every step each such card shows
\*     exactly one of the four statuses.
\* ------------------------------------------------------------------------
C11_StatusRelation ==
    [][ /\ Len(tasks) < MaxClicks
           => \A action \in StatusActions, user \in Users, m \in Messages :
                 ENABLED Click(action, user, m)
        /\ \A m \in Messages :
              HasStatus(store[m])
              => \E action \in StatusActions : ShowsStatus(store'[m], action)
        /\ \A t \in 1..MaxClicks :
              /\ (Ran(t) /\ HasStatus(tasks[t].payload))
                 => /\ tasks'[t].pc = "awaitUpdate"
                    /\ ShowsStatus(tasks'[t].call[1].blocks, tasks[t].action)
                    /\ AssignedTo(tasks'[t].call[1].blocks, tasks[t].user)
              /\ (Applied(t) /\ HasStatus(tasks[t].payload))
                 => /\ ShowsStatus(store'[MessageOf(tasks[t])], tasks[t].action)
                    /\ AssignedTo(store'[MessageOf(tasks[t])], tasks[t].user)
      ]_vars

\* A card that stands at Completed by the second user, after a first event
\* was applied, took the event Pending Review from the first user.
C11_Witness ==
    /\ Len(tasks) = 2
    /\ tasks[1].pc = "done"
    /\ tasks[2].pc = "awaitUpdate"
    /\ tasks[2].action = "status_pending"
    /\ tasks[2].user = "U1"
    /\ tasks[2].payload = store[Origin]
    /\ ShowsStatus(tasks[2].payload, "status_completed")
    /\ AssignedTo(tasks[2].payload, "U2")
    /\ ShowsStatus(tasks[2].call[1].blocks, "status_pending")

\* ------------------------------------------------------------------------
\* C12 A status handler issues one kind of call, chat.update, addressed to
\*     the channel and the timestamp of its event; no message is added at
\*     the messaging layer and none is posted, and a stored card changes
\*     only when the update of an event raised on that very message is
\*     applied.
\* ------------------------------------------------------------------------
C12_UpdateInPlace ==
    [][ /\ DOMAIN store' = Messages
        /\ outbound' = <<>>
        /\ \A t \in 1..Len(tasks') :
              tasks'[t].call /= <<>>
              => /\ Len(tasks'[t].call) = 1
                 /\ tasks'[t].call[1].api = "chat.update"
                 /\ tasks'[t].call[1].channel = tasks'[t].channel
                 /\ tasks'[t].call[1].ts = tasks'[t].ts
        /\ \A m \in Messages :
              store'[m] /= store[m]
              => \E t \in 1..MaxClicks : Applied(t) /\ MessageOf(tasks[t]) = m
      ]_vars

\* One event, raised on the mirror by the second user, was applied: the
\* mirror names that user, the card of the thread is as it was rendered.
C12_Witness ==
    /\ Len(tasks) = 1
    /\ tasks[1].pc = "done"
    /\ AssignedTo(store[Mirror], "U2")
    /\ ShowsStatus(store[Mirror], "status_completed")
    /\ store[Origin] \in Cards

\* ------------------------------------------------------------------------
\* C13 A status event raised on a card that already shows the status of
\*     the event and names the acting user as assignee, as it does after
\*     one application of the event, writes the card it was raised on: the
\*     second application changes no block.
\* ------------------------------------------------------------------------
C13_StatusIdempotent ==
    \A t \in 1..Len(tasks) :
        ( /\ tasks[t].pc = "awaitUpdate"
          /\ ShowsStatus(tasks[t].payload, tasks[t].action)
          /\ AssignedTo(tasks[t].payload, tasks[t].user) )
        => tasks[t].call[1].blocks = tasks[t].payload

\* Completed by the second user was applied, and the same event was raised
\* by the same user again.
C13_Witness ==
    /\ Len(tasks) = 2
    /\ tasks[1].pc = "done"
    /\ tasks[2].pc = "awaitUpdate"
    /\ tasks[2].action = "status_completed"
    /\ tasks[2].user = "U2"
    /\ ShowsStatus(tasks[2].payload, "status_completed")
    /\ AssignedTo(tasks[2].payload, "U2")
    /\ store[MessageOf(tasks[2])] = tasks[2].payload
    /\ tasks[2].call[1].blocks = tasks[2].payload

\* ------------------------------------------------------------------------
\* C14 Each stored card is, block by block, the card as it was rendered,
\*     but for the text of the status block and the assignee element of
\*     the last block.
\* ------------------------------------------------------------------------
SameFrame(blocks, card) ==
    /\ Len(blocks) = Len(card)
    /\ \A k \in 1..Len(card) :
          IF IsStatusBlock(card[k])
          THEN IsStatusBlock(blocks[k]) /\ blocks[k].type = card[k].type
          ELSE IF k = Len(card)
          THEN /\ blocks[k].type = card[k].type
               /\ DOMAIN blocks[k] = DOMAIN card[k]
               /\ Len(blocks[k].elements) = Len(card[k].elements)
          ELSE blocks[k] = card[k]

C14_StatusFrame ==
    \E card \in Cards : \A m \in Messages : SameFrame(store[m], card)

\* The card with two images stands at Needs Revision by the second user.
C14_Witness ==
    /\ Len(tasks) = 2
    /\ tasks[1].pc = "done"
    /\ tasks[2].pc = "done"
    /\ Len(store[Origin]) = 11
    /\ store[Origin][7].type = "image"
    /\ store[Origin][8].type = "image"
    /\ ShowsStatus(store[Origin], "status_needs_revision")
    /\ AssignedTo(store[Origin], "U2")

\* ------------------------------------------------------------------------
\* C15 The card a handler writes is the card of its own payload with the
\*     status and the acting user of its own event, whatever other events
\*     are in flight; an applied update replaces the stored card of its
\*     message by the card written, whole, and leaves the other message
\*     alone: the card stored is that of the update applied last, status
\*     and assignee of one event.
\* ------------------------------------------------------------------------
WrittenAsClaimed(payload, action, user) ==
    [k \in 1..Len(payload) |->
        IF IsStatusBlock(payload[k])
        THEN [payload[k] EXCEPT !.text = <<"*Status:*", NL, LabelOf[action]>>]
        ELSE IF k = Len(payload)
        THEN [payload[k] EXCEPT !.elements = << <<"*Assignee:* ", user>> >>]
        ELSE payload[k]]

C15_LastWriteWins ==
    [][ \A t \in 1..MaxClicks :
           /\ (Ran(t) /\ tasks'[t].pc = "awaitUpdate")
              => tasks'[t].call[1].blocks
                   = WrittenAsClaimed(tasks[t].payload, tasks[t].action, tasks[t].user)
           /\ Applied(t)
              => /\ store'[MessageOf(tasks[t])] = tasks[t].call[1].blocks
                 /\ \A m \in Messages \ {MessageOf(tasks[t])} : store'[m] = store[m]
      ]_vars

\* Two events by different users were raised on the card of the thread
\* before either was applied; the update of the second has been applied,
\* and the update of the first, built without it, is still to come.
C15_Witness ==
    /\ Len(tasks) = 2
    /\ tasks[1].pc = "awaitUpdate"
    /\ tasks[2].pc = "done"
    /\ MessageOf(tasks[1]) = Origin
    /\ tasks[1].action = "status_in_progress"
    /\ tasks[1].user = "U1"
    /\ ShowsStatus(store[Origin], "status_completed")
    /\ AssignedTo(store[Origin], "U2")
    /\ ShowsStatus(tasks[1].payload, "status_pending")
    /\ ShowsStatus(tasks[1].call[1].blocks, "status_in_progress")

\* ------------------------------------------------------------------------
\* C21 For every dictionary term that occurs in the text and has a shorter
\*     term inside it, the token of the longer term is recorded, and before
\*     the token of the shorter one; the shorter term gets a token only
\*     when it also occurs outside every longer term; and the reply to a
\*     text without literal spans, when the backend answers, carries the
\*     translation of the longer term.
\* ------------------------------------------------------------------------
ValueOf(term) ==
    LET k == CHOOSE k \in 1..Len(fixedTranslations) : fixedTranslations[k][1] = term
    IN  fixedTranslations[k][2]

C21_LongestTermFirst ==
    TookPlainFlow
    => LET phs == calls[1].placeholders
           At(term) == { i \in 1..Len(phs) : phs[i][2] = ValueOf(term) }
       IN  \A long \in Terms, short \in Terms :
              (long /= short /\ Includes(long, short) /\ Includes(event.text, long))
              => /\ At(long) /= {}
                 /\ \A i \in At(long), j \in At(short) : i < j
                 /\ (At(short) /= {}) <=> (OwnOccurrences(event.text, short) > 0)
                 /\ (/\ pc = "done"
                     /\ calls[1].result /= <<>>
                     /\ ~Includes(event.text, <<"((">>))
                    => Includes(outbound[1].text, ValueOf(long))

\* The longer of two nested terms, followed by the shorter one's first
\* character, was answered with the translation of the longer term.
C21_Witness ==
    /\ pc = "done"
    /\ event.text = <<"{dip}", "{chya}", "{kol}", "{chya}">>
    /\ calls[1].placeholders = << <<Token(0), <<"Deep Charcoal">>>> >>
    /\ Includes(outbound[1].text, <<"Deep Charcoal">>)


\* ------------------------------------------------------------------------
\* C22: a status handler whose payload card has no status block fails while
\* looking for it: the run ends in the catch, no update call is issued, and
\* the stored cards stay as they were.
\* (updateStatusBlock does nothing when the block is missing, index.js:461,
\* so the run goes on to the assignee and to the update.)
\* ------------------------------------------------------------------------
C22_MissingStatusFails ==
    [][\A t \in 1..MaxClicks :
          (Ran(t) /\ ~HasStatus(tasks[t].payload))
          => /\ tasks'[t] = Returned("caught")
             /\ store' = store]_vars


\* ------------------------------------------------------------------------
\* C23 Every card the form flow posts, whatever the form and however many
\* files are attached, has exactly one status block, which shows Pending
\* Review, and names the author of the source message as assignee.
\* ------------------------------------------------------------------------
C23_CardStartsPending ==
    \A k \in CardPosts :
        /\ Cardinality(StatusBlocksOf(outbound[k].blocks)) = 1
        /\ ShowsStatus(outbound[k].blocks, "status_pending")
        /\ AssignedTo(outbound[k].blocks, event.user)

C23_Witness ==
    /\ pc = "done"
    /\ event.user = "U2"
    /\ Len(event.files) = 2
    /\ Cardinality(CardPosts) = 2
    /\ AssignedTo(outbound[1].blocks, "U2")


\* ------------------------------------------------------------------------
\* C25 The reply of the plain flow is always posted in a thread: in the
\* thread of the source message when that message is itself a reply, and
\* in a new thread under the source message when it is not.
\* (For a message at the top of the channel the handler passes
\* thread_ts: undefined, index.js:450, and the reply goes to the top of
\* the channel; the earlier revision passed event.ts.)
\* ------------------------------------------------------------------------
C25_ReplyAlwaysThreaded ==
    (TookPlainFlow /\ outbound /= <<>>)
    => outbound[1].thread_ts = IF event.thread_ts /= "none"
                               THEN event.thread_ts
                               ELSE event.ts


\* ------------------------------------------------------------------------
\* C24 An event that passes the guard leads, unless a backend or messaging
\* call fails, to exactly one post to the channel of the event: a card when
\* the text is a form, the translation reply when it is not; at no time
\* are there two posts to that channel.
\* ------------------------------------------------------------------------
\* No call of the event has failed so far
AllSucceeded ==
    /\ \A k \in 1..Len(calls) : calls[k].state /= "failed"
    /\ \A k \in 1..Len(outbound) : outbound[k].ack /= "error"

\* The posts of the event to the channel it came from
PostsToOrigin == { k \in 1..Len(outbound) : outbound[k].channel = event.channel }

Delivered ==
    /\ pc = "done"
    /\ Cardinality(PostsToOrigin) = 1
    /\ \A k \in PostsToOrigin :
          /\ outbound[k].ack = "ok"
          /\ IsCard(outbound[k]) <=> local.isForm

C24_EventuallyOnePost ==
    /\ [](pc = "caught" => ~AllSucceeded)
    /\ [](Cardinality(PostsToOrigin) <= 1)
    /\ (pc = "received" /\ ~Discarded(event)) ~> (pc = "caught" \/ Delivered)

C24_Witness ==
    /\ Delivered
    /\ local.isForm
    /\ archive /= <<>>
    /\ Len(outbound) = 2
    /\ \E k \in 1..Len(calls) : calls[k].state = "short"


\* ------------------------------------------------------------------------
\* C26 Restoration does not depend on the order of the entries: for every
\* placeholder map preprocessFixedWords produces, and the translation that
\* came back, replacing the tokens in any order of the entries gives the
\* text postprocessFixedWords gives with the insertion order.
\* (The entry of a literal span that held a dictionary term maps to text
\* that holds the token of the term, which only a later pass restores.)
\* ------------------------------------------------------------------------
C26_RestoreAnyOrder ==
    (TookPlainFlow /\ calls[1].state = "done")
    => LET phs == calls[1].placeholders
           n == Len(phs)
       IN  \A order \in Permutations(1..n) :
              RestoreLoop(calls[1].result, [k \in 1..n |-> phs[order[k]]], n) = Final


\* ------------------------------------------------------------------------
\* C27 The lines of the body before its first label line are discarded by
\* parseSections: the fields are those of the body from its first label
\* line on, and a body without a label line has three empty fields and is
\* not a form.
\* ------------------------------------------------------------------------
LabelLinesOf(lines) == { k \in 1..Len(lines) : IsLabelLine(lines[k]) }

C27_LeadingLinesDiscarded ==
    Started
    => LET lines == BodyLines
           labelled == LabelLinesOf(lines)
       IN  IF labelled = {}
           THEN /\ local.team = <<>> /\ local.main = <<>> /\ local.detail = <<>>
                /\ ~local.isForm
           ELSE LET first == CHOOSE k \in labelled : \A j \in labelled : k <= j
                    p == parseSections(Join(SubSeq(lines, first, Len(lines)), NL))
                IN  /\ local.team = p.team
                    /\ local.main = p.main
                    /\ local.detail = p.detail

C27_Witness ==
    /\ Started
    /\ BodyLines = << <<"h", "i">>, Keyword, MainLabel \o <<" ", "{chya}", "{kol}">> >>
    /\ local.isForm
    /\ local.main = <<"{chya}", "{kol}">>


\* ------------------------------------------------------------------------
\* C28 Whatever the order in which the backend calls of a form complete,
\* the card is posted only once every call of both fields has completed,
\* and the i-th bullet of each request section is the restored translation
\* of the i-th non-empty line of the field.
\* (A bullet is also made for the one empty line of an empty field, and no
\* bullet is made for a line whose translation came back blank, which moves
\* the bullets after it up.)
\* ------------------------------------------------------------------------
\* The restored translations of the non-empty lines among lines, results
\* being the restored translations of all of them, in the same order
RECURSIVE OfNonEmptyLines(_, _)
OfNonEmptyLines(lines, results) ==
    IF lines = <<>> THEN <<>>
    ELSE (IF Trim(Head(lines)) /= <<>> THEN <<Head(results)>> ELSE <<>>)
         \o OfNonEmptyLines(Tail(lines), Tail(results))

C28_BulletsFollowLines ==
    \A n \in CardPosts :
        /\ \A k \in 1..Len(calls) : calls[k].state \in {"short", "done"}
        /\ \A field \in {"main", "detail"} :
              SectionOf(outbound[n], field)
                = SectionText(TitleOf(field),
                              Highlighted(OfNonEmptyLines(FieldLines(field),
                                                          OfField(calls, field))),
                              NoteOf(field))


\* ------------------------------------------------------------------------
\* C29 A status handler issues at most one update call for its event, and
\* only on its way from ack(); when the update is refused the handler
\* returns through its catch: the update is not issued again, the cards
\* stay as they were, and no other call goes out, then or later.
\* ------------------------------------------------------------------------
\* The step in which the update of the t-th event is refused
Refused(t) ==
    /\ t <= Len(tasks)
    /\ tasks[t].pc = "awaitUpdate"
    /\ tasks'[t] /= tasks[t]
    /\ tasks'[t].pc /= "done"

C29_OneUpdatePerEvent ==
    [][\A t \in 1..MaxClicks :
          /\ outbound' = <<>>
          /\ t <= Len(tasks')
             => /\ Len(tasks'[t].call) <= 1
                /\ \A k \in 1..Len(tasks'[t].call) :
                      tasks'[t].call[k].api = "chat.update"
          /\ (t <= Len(tasks) /\ tasks'[t].call /= tasks[t].call /\ tasks'[t].call /= <<>>)
             => Ran(t)
          /\ Refused(t)
             => /\ tasks'[t] = Returned("caught")
                /\ store' = store
          /\ (t <= Len(tasks) /\ tasks[t].pc \in {"done", "caught"})
             => tasks'[t] = tasks[t]]_vars

C29_Witness ==
    /\ Len(tasks) = 2
    /\ tasks[1] = Returned("caught")
    /\ tasks[2].pc = "awaitUpdate"
    /\ \A m \in Messages : ShowsStatus(store[m], "status_pending")


\* ------------------------------------------------------------------------
\* C30 A marker line matters only as the first line of the text: a header
\* is recognised exactly when the trimmed first line is one of the two
\* markers, only that line is taken off before the sections are parsed,
\* and a marker line further down is parsed like any other line that is
\* not a label line: appended to the current section, not dropped.
\* (parseSections skips a marker line wherever it stands, index.js:66.)
\* ------------------------------------------------------------------------
\* One iteration of the loop as the claim has it: a marker line is a line
\* like any other
AppendedAsClaimed(st, line) ==
    IF ~IsMarkerLine(line) THEN ParseLine(st, line)
    ELSE IF st.current = "main"
         THEN [st EXCEPT !.main = AppendLine(st.main, Trim(line))]
    ELSE IF st.current = "detail"
         THEN [st EXCEPT !.detail = AppendLine(st.detail, Trim(line))]
    ELSE st

RECURSIVE LoopAsClaimed(_, _)
LoopAsClaimed(lines, k) ==
    IF k = 0 THEN ParserInit
    ELSE AppendedAsClaimed(LoopAsClaimed(lines, k - 1), lines[k])

C30_MarkerOnlyAsFirstLine ==
    Started
    => LET textLines == Split(event.text, NL)
           st == LoopAsClaimed(BodyLines, Len(BodyLines))
       IN  /\ (local.header /= <<>>) <=> IsMarkerLine(textLines[1])
           /\ BodyText(event.text)
                = IF IsMarkerLine(textLines[1])
                  THEN Trim(Join(Tail(textLines), NL))
                  ELSE event.text
           /\ local.team = Trim(st.team)
           /\ local.main = Trim(st.main)
           /\ local.detail = Trim(st.detail)


\* ------------------------------------------------------------------------
\* C31 The header tag of the card follows the first line of the text: the
\* card carries the NEW tag exactly when the trimmed first line is the new
\* marker, the EDIT tag exactly when it is the edit marker, and no tag when
\* the first line is any other line.
\* (Without a marker the header block falls back to the NEW tag,
\* index.js:284.)
\* ------------------------------------------------------------------------
\* The text of the header block of a posted card
HeaderOf(post) == post.blocks[1].text

C31_TagFollowsMarker ==
    \A n \in CardPosts :
        LET firstLine == Trim(Split(event.text, NL)[1])
        IN  /\ Includes(HeaderOf(outbound[n]), <<"[[NEW]]">>) <=> (firstLine = NewMarker)
            /\ Includes(HeaderOf(outbound[n]), <<"[[EDIT]]">>) <=> (firstLine = EditMarker)


\* ------------------------------------------------------------------------
\* C32 The team name is never translated: the calls of a form are those of
\* the lines of its two request fields, one each and in order, none is
\* made for the team field, and the card shows the team exactly as parsed.
\* ------------------------------------------------------------------------
\* The line of the form the k-th call was made for
LineOfCall(k) ==
    LET mainLines == Split(local.main, NL)
        detailLines == Split(local.detail, NL)
    IN  IF k <= Len(mainLines) THEN mainLines[k] ELSE detailLines[k - Len(mainLines)]

\* The team field of a posted card
TeamOf(post) == post.blocks[2].fields[1]

C32_TeamNeverTranslated ==
    (Started /\ local.isForm)
    => /\ local.team = parseSections(BodyText(event.text)).team
       /\ Len(calls) = Len(Split(local.main, NL)) + Len(Split(local.detail, NL))
       /\ \A k \in 1..Len(calls) :
             /\ calls[k].field \in {"main", "detail"}
             /\ calls[k].content = preprocessFixedWords(LineOfCall(k)).replaced
       /\ \A n \in CardPosts :
             TeamOf(outbound[n]) = <<"*Team Name*", NL>> \o local.team

\* A card for a Korean form shows the team name in Hangul, a dictionary
\* term, as it was written.
C32_Witness ==
    /\ pc = "done"
    /\ local.isForm
    /\ local.targetLang = "English"
    /\ local.team = <<"{chya}", "{kol}">>
    /\ TeamOf(outbound[1]) = <<"*Team Name*", NL, "{chya}", "{kol}">>


\* ------------------------------------------------------------------------
\* C33 Handlers share no state: the calls a handler has made (to the
\* backend and to the messaging layer, the answers aside) are those its
\* own event, the configuration and the backend's answers to its own calls
\* determine, whatever other events were handled before or are being
\* handled beside it.
\* ------------------------------------------------------------------------
\* The backend requests the event alone determines
RequestsOf(e) ==
    LET p == parseSections(BodyText(e.text))
    IN  IF isForm(p.team, p.main, p.detail)
        THEN FormCalls(p.main, p.detail, targetLang(e.text))
        ELSE PlainCalls(e.text, targetLang(e.text))

\* A call to the messaging layer, its answer aside
Sent(post) == [post EXCEPT !.ack = "pending"]

\* The first post the event, and the answers to its requests, determine
PostOf(e, cs) ==
    LET p == parseSections(BodyText(e.text))
        restored == postprocessFixedWords(cs[1].result, cs[1].placeholders)
    IN  IF isForm(p.team, p.main, p.detail)
        THEN [api |-> "chat.postMessage", channel |-> e.channel, thread_ts |-> e.ts,
              blocks |-> CardBlocks(parseHeader(e.text), p.team,
                                    Highlighted(ResultList(cs, "main")),
                                    Highlighted(ResultList(cs, "detail")),
                                    e.files, e.user),
              text |-> FallbackText(parseHeader(e.text), p.team, p.main, p.detail),
              ack |-> "pending"]
        ELSE [api |-> "chat.postMessage", channel |-> e.channel,
              thread_ts |-> e.thread_ts,
              blocks |-> << [type |-> "context",
                             elements |-> << <<"Auto Translator Bot">> >>],
                            [type |-> "divider"],
                            [type |-> "section",
                             text |-> (IF isKorean(e.text)
                                       THEN <<"*Translation Result*">>
                                       ELSE <<"*Translation Result (ko)*">>)
                                      \o <<NL, ">", " ">> \o restored] >>,
              text |-> <<"Translation result: ">> \o restored,
              ack |-> "pending"]

\* The mirror of a post, for the configuration
MirrorOf(post, config) ==
    [post EXCEPT !.channel = config[1], !.thread_ts = "none"]

LinesLabelled(lines, f) ==
    { k \in 1..Len(lines) : ~IsMarkerLine(lines[k]) /\ StartsWith(Trim(lines[k]), Labels[f]) }

ParsedField(f) == IF f = 1 THEN local.team ELSE IF f = 2 THEN local.main ELSE local.detail

C34_LastLabelWins ==
    Started
    => LET lines == BodyLines
       IN  \A f \in 1..3 :
              LET at == LinesLabelled(lines, f)
              IN  at /= {}
                  => LET last == CHOOSE k \in at : \A j \in at : j <= k
                         tail == SubSeq(lines, last, Len(lines))
                     IN  ParsedField(f) = FieldOf(parseSections(Join(tail, NL)), f)

\* The design requests are labelled twice: what the first label collected
\* is gone.
C34_Witness ==
    /\ Started
    /\ BodyLines = << MainLabel \o <<" ", "{chya}", "{kol}">>, <<"h", "i">>, MainLabel >>
    /\ Cardinality(LinesLabelled(BodyLines, 2)) = 2
    /\ local.main = <<>>

====
